---- MODULE Spec2Model ----
(***************************************************************************)
(* MAMLInnerLoopGradientDescent (meta_learning/maml_inner_loop.py).        *)
(*                                                                         *)
(* Tensors are modelled by their integer value together with the variable  *)
(* they derive from and the operation that produced them.  Variable names  *)
(* are sequences of one-character strings, so that str.startswith and the  *)
(* '/' -> '_' rewriting of _get_learning_rate are computed, not assumed.   *)
(* A Python dict is a sequence of [k, v] records in insertion order.       *)
(***************************************************************************)
EXTENDS Integers, Sequences, FiniteSets, TLC

\* Gradient steps over the life of the instance: inner_loop is called while
\* fewer have been taken, with a list of n batches whose n - 1 steps fit.
MaxGens == 2
\* Gradients are None or an integer in 1..MaxGrad.
MaxGrad == 1
\* Longest tuple or list handed to _extract_train_loss on its own.
MaxTupleLen == 3

-----------------------------------------------------------------------------
(* Variable names and the scope prefix *)

NameSlash == <<"a", "/", "b">>
NameUnder == <<"a", "_", "b">>
Names == {NameSlash, NameUnder}
ScopePrefix == <<"a", "/">>

\* Optional values (None or a value) are records of one shape, so that any two can be compared.
None == [isNone |-> TRUE, some |-> <<>>]
Some(x) == [isNone |-> FALSE, some |-> <<x>>]
The(o) == o.some[1]

\* str.startswith
StartsWith(name, prefix) ==
  /\ Len(prefix) <= Len(name)
  /\ SubSeq(name, 1, Len(prefix)) = prefix

-----------------------------------------------------------------------------
(* Python dict: insertion-ordered, keys distinct *)

Keys(d) == [i \in 1..Len(d) |-> d[i].k]
KeySet(d) == {d[i].k : i \in 1..Len(d)}
Contains(d, key) == key \in KeySet(d)
Lookup(d, key) == d[CHOOSE i \in 1..Len(d) : d[i].k = key].v
Store(d, key, value) ==
  IF Contains(d, key)
    THEN [i \in 1..Len(d) |-> IF d[i].k = key THEN [k |-> key, v |-> value] ELSE d[i]]
    ELSE Append(d, [k |-> key, v |-> value])

\* f(x), with x evaluated once however often f uses its argument.
Apply(f(_), x) == CHOOSE y \in {f(v) : v \in {x}} : TRUE

\* All sequences over S of length at most n.
SeqsUpTo(S, n) == UNION {[1..m -> S] : m \in 0..n}

\* The networks tried: the names inference_network_fn requests, in order, on a
\* training batch (none; one; two; two with one of them requested again) ...
TrainingReads ==
  {<<>>, <<NameSlash>>, <<NameUnder, NameSlash>>, <<NameSlash, NameUnder, NameSlash>>}
\* ... and on the validation batch.
EvalReads == {<<NameSlash>>, <<NameUnder>>}

-----------------------------------------------------------------------------
(* The instance, the TensorFlow variable store and the frame of inner_loop *)

VARIABLES
  variable_cache,                 \* self._variable_cache: list of generations
  custom_getter_variable_cache,   \* self._custom_getter_variable_cache
  lr_cache,                       \* self._lr_cache
  learning_rate,                  \* self._learning_rate
  use_second_order,               \* self._use_second_order
  var_scope,                      \* self._var_scope (None or a prefix)
  learn_inner_lr,                 \* self._learn_inner_lr
  inner_loop_vars,                \* variables created in scope 'inner_loop'
  inner_learning_rates,           \* variables created in scope 'inner_learning_rates'
  pc,                             \* last phase of inner_loop that completed
  error,                          \* the exception inner_loop raised
  inputs_list,                    \* argument: the batches, by number
  inference_network_fn,           \* argument: the names it requests on a training batch
  model_train_fn,                 \* argument: the shape of what it returns
  params,                         \* argument: the hyper parameter dict
  step,                           \* iterations of the for loop completed
  inner_outputs,                  \* local
  inner_losses,                   \* local
  train_fn_result,                \* local
  train_loss,                     \* local
  gradients,                      \* local of _compute_and_apply_gradients
  conditioned_outputs,            \* local
  unconditioned_outputs,          \* local
  result                          \* the returned triple

instance == <<variable_cache, custom_getter_variable_cache, lr_cache,
              learning_rate, use_second_order, var_scope, learn_inner_lr>>
graph == <<inner_loop_vars, inner_learning_rates>>
frame == <<pc, error, inputs_list, inference_network_fn, model_train_fn,
           params, step, inner_outputs, inner_losses, train_fn_result, train_loss,
           gradients, conditioned_outputs, unconditioned_outputs, result>>
vars == <<instance, graph, frame>>

-----------------------------------------------------------------------------
(* Tensors *)

\* The value the original getter's initializer gives a model variable.
InitialValue(name) == IF name = NameSlash THEN 10 ELSE 20

\* The tensor of a variable of the 'inner_loop' scope.
VariableTensor(name) ==
  [var |-> name, val |-> InitialValue(name), op |-> "Variable", stopped |-> FALSE]

\* old - scaled_gradient, line 186-187; `stopped` records tf.stop_gradient.
SubTensor(old, scaled, isStopped) ==
  [var |-> old.var, val |-> old.val - scaled, op |-> "Sub", stopped |-> isStopped]

\* '_'.join(var_name.split('/')) + '_inner_lr', line 90
LrVariableName(var_name) ==
  [i \in 1..Len(var_name) |-> IF var_name[i] = "/" THEN "_" ELSE var_name[i]]
    \o <<"_", "i", "n", "n", "e", "r", "_", "l", "r">>

-----------------------------------------------------------------------------
(* _get_learning_rate, lines 83-95.  AUTO_REUSE: tf.get_variable creates the
   variable the first time its name is asked for and returns it afterwards. *)

\* line 94 written as self._lr_cache = {var_name: learning_rate}
GetLearningRateForgetful(lrc, lrvars, var_name) ==
  IF Contains(lrc, var_name)
    THEN [value |-> Lookup(lrc, var_name), lr_cache |-> lrc, created |-> lrvars]
    ELSE LET lr == [var |-> LrVariableName(var_name), val |-> learning_rate]
         IN [value |-> lr,
             lr_cache |-> <<[k |-> var_name, v |-> lr]>>,
             created |-> lrvars \cup {LrVariableName(var_name)}]

GetLearningRate(lrc, lrvars, var_name) ==
  IF Contains(lrc, var_name)
    THEN [value |-> Lookup(lrc, var_name), lr_cache |-> lrc, created |-> lrvars]
    ELSE LET lr == [var |-> LrVariableName(var_name), val |-> learning_rate]
         IN [value |-> lr,
             lr_cache |-> Store(lrc, var_name, lr),
             created |-> lrvars \cup {LrVariableName(var_name)}]

-----------------------------------------------------------------------------
(* custom_getter_fn, lines 116-138.  `getter` is the original getter: it
   creates the variable in the store, or fetches it when it exists. *)

\* line 135 left out: the original getter is asked every time
CustomGetterFnUncached(cache, store, name) ==
  [cache |-> Store(cache, name, VariableTensor(name)),
   store |-> store \cup {name},
   value |-> VariableTensor(name)]

CustomGetterFn(cache, store, name) ==
  IF ~Contains(cache, name)
    THEN [cache |-> Store(cache, name, VariableTensor(name)),
          store |-> store \cup {name},
          value |-> VariableTensor(name)]
    ELSE [cache |-> cache, store |-> store, value |-> Lookup(cache, name)]

\* A forward pass under the custom getter: the network asks for the names of
\* `reads` in order.  Yields the cache, the store and the values it was given.
RECURSIVE ForwardPass(_, _, _, _)
ForwardPass(reads, cache, store, seen) ==
  IF reads = <<>>
    THEN [cache |-> cache, store |-> store, values |-> seen]
    ELSE LET RestOfPass(r) ==
               ForwardPass(Tail(reads), r.cache, r.store,
                           Append(seen, [k |-> Head(reads), v |-> r.value]))
         IN Apply(RestOfPass, CustomGetterFn(cache, store, Head(reads)))

\* the last pass run under the custom getter like the others
ReuseOnlyPassThroughCache(reads, store) ==
  IF \A i \in 1..Len(reads) : reads[i] \in store
    THEN [raised |-> FALSE,
          values |-> [i \in 1..Len(reads) |->
                       [k |-> reads[i], v |-> Lookup(custom_getter_variable_cache, reads[i])]]]
    ELSE [raised |-> TRUE, values |-> <<>>]

\* the last pass under a scope that creates the variables it does not find
ReuseOnlyPassCreating(reads, store) ==
  [raised |-> FALSE,
   values |-> [i \in 1..Len(reads) |-> [k |-> reads[i], v |-> VariableTensor(reads[i])]]]

\* A forward pass under tf.variable_scope('inner_loop', reuse=True) with no
\* custom getter, lines 321-324: tf.get_variable returns the variable of the
\* store and raises when the store has none of that name.
ReuseOnlyPass(reads, store) ==
  IF \A i \in 1..Len(reads) : reads[i] \in store
    THEN [raised |-> FALSE,
          values |-> [i \in 1..Len(reads) |-> [k |-> reads[i], v |-> VariableTensor(reads[i])]]]
    ELSE [raised |-> TRUE, values |-> <<>>]

\* What inference_network_fn returns.
Outputs(features, p, values) ==
  [features |-> features, is_inner_loop |-> Lookup(p, "is_inner_loop"), values |-> values]
NoOutputs == [features |-> 0, is_inner_loop |-> FALSE, values |-> <<>>]

-----------------------------------------------------------------------------
(* _compute_and_apply_gradients, lines 142-187 *)

\* ignore_var with the `not` before name.startswith left out
IgnoreVarNotNegated(name) ==
  ~var_scope.isNone /\ StartsWith(name, The(var_scope))

\* ignore_var, lines 174-175
IgnoreVar(name) ==
  ~var_scope.isNone /\ ~StartsWith(name, The(var_scope))

\* the update with the learning rate left out: old - gradient
UpdatedValueUnscaled(old_value, lr, gradient) ==
  SubTensor(old_value, gradient, ~use_second_order)

\* lines 184-185 left out: the scaled gradient is never stopped
UpdatedValueNeverStopped(old_value, lr, gradient) ==
  SubTensor(old_value, lr.val * gradient, FALSE)

\* lines 183-187: the value stored for a parameter that is updated
UpdatedValue(old_value, lr, gradient) ==
  SubTensor(old_value, lr.val * gradient, ~use_second_order)

\* line 177 left out: a parameter that is not updated is not carried over
CarryForwardDropped(acc, variable_cache_old, name) == acc

\* line 177: the parameter goes into the new cache as it is
CarryForward(acc, variable_cache_old, name) ==
  [acc EXCEPT !.cache = Store(@, name, Lookup(variable_cache_old, name))]

\* lines 179-182 replaced by line 180: the rate always comes from the registry
UpdateAlwaysLearned(acc, variable_cache_old, name, gradient) ==
  LET Updated(lr) ==
        [cache |-> Store(acc.cache, name,
                         UpdatedValue(Lookup(variable_cache_old, name), lr.value, gradient)),
         lr_cache |-> lr.lr_cache,
         created |-> lr.created]
  IN Apply(Updated, GetLearningRate(acc.lr_cache, acc.created, name))

\* lines 179-187: the parameter goes into the new cache updated
Update(acc, variable_cache_old, name, gradient) ==
  LET Updated(lr) ==
        [cache |-> Store(acc.cache, name,
                         UpdatedValue(Lookup(variable_cache_old, name), lr.value, gradient)),
         lr_cache |-> lr.lr_cache,
         created |-> lr.created]
  IN Apply(Updated,
           IF learn_inner_lr
             THEN GetLearningRate(acc.lr_cache, acc.created, name)
             ELSE [value |-> [var |-> <<>>, val |-> learning_rate],
                   lr_cache |-> acc.lr_cache, created |-> acc.created])

\* The for loop of lines 172-187 from position i on; acc holds the new cache,
\* self._lr_cache and the learning-rate variables created so far.
RECURSIVE UpdateLoop(_, _, _, _)
UpdateLoop(variable_cache_old, grads, i, acc) ==
  IF i > Len(variable_cache_old)
    THEN acc
    ELSE
      LET name == Keys(variable_cache_old)[i]
          gradient == grads[i]
          RestOfLoop(next) == UpdateLoop(variable_cache_old, grads, i + 1, next)
      IN Apply(RestOfLoop,
               IF gradient.isNone \/ IgnoreVar(name)
                 THEN CarryForward(acc, variable_cache_old, name)
                 ELSE Update(acc, variable_cache_old, name, The(gradient)))

\* line 167 left out: the dict appended to the history is the one updated
AppendAndUpdateInPlace(cache, history, lrc, lrvars, grads) ==
  LET Result(r) ==
        [raised |-> FALSE, cache |-> r.cache, history |-> Append(history, r.cache),
         lr_cache |-> r.lr_cache, created |-> r.created]
  IN Apply(Result,
           UpdateLoop(cache, grads, 1, [cache |-> cache, lr_cache |-> lrc, created |-> lrvars]))

\* Lines 161-187.  grads is what tf.gradients returns for variable_list.
AppendAndUpdate(cache, history, lrc, lrvars, grads) ==
  LET Rebuilt(appended) ==
        LET Result(r) ==
              [raised |-> FALSE, cache |-> r.cache, history |-> appended,
               lr_cache |-> r.lr_cache, created |-> r.created]
        IN Apply(Result,
                 UpdateLoop(appended[Len(appended)], grads, 1,
                            [cache |-> <<>>, lr_cache |-> lrc, created |-> lrvars]))
  IN Apply(Rebuilt, Append(history, cache))

\* the method without the check of lines 156-159
ComputeAndApplyGradientsUnchecked(cache, history, lrc, lrvars, grads) ==
  AppendAndUpdate(cache, history, lrc, lrvars, grads)

\* The whole method: lines 156-159 raise on an empty cache.
ComputeAndApplyGradients(cache, history, lrc, lrvars, grads) ==
  IF cache = <<>>
    THEN [raised |-> TRUE, cache |-> cache, history |-> history,
          lr_cache |-> lrc, created |-> lrvars]
    ELSE AppendAndUpdate(cache, history, lrc, lrvars, grads)

\* What tf.gradients may return for one variable.
Gradients == {None} \cup {Some(g) : g \in 1..MaxGrad}

-----------------------------------------------------------------------------
(* model_train_fn results and _extract_train_loss, lines 189-210 *)

LossTensor(features, flag) ==
  [type |-> "Tensor", features |-> features, is_inner_loop |-> flag, items |-> <<>>]
TrainOutputs(features, flag) ==
  [type |-> "dict", features |-> features, is_inner_loop |-> flag, items |-> <<>>]
Text == [type |-> "str", features |-> 0, is_inner_loop |-> FALSE, items |-> <<>>]
Tuple(items) == [type |-> "tuple", features |-> 0, is_inner_loop |-> FALSE, items |-> items]

\* The model_train_fn arguments inner_loop is called with.
TrainFnShapes == {"loss", "str"}

\* The value model_train_fn returns on a batch under params p, by shape: the
\* loss, or something that is no train result.
TrainFnResult(shape, features, p) ==
  IF shape = "loss"
    THEN LossTensor(features, Lookup(p, "is_inner_loop"))
    ELSE Text
NoTrainResult == [type |-> "None", features |-> 0, is_inner_loop |-> FALSE, items |-> <<>>]

ExtractTrainLoss(r) ==
  IF r.type = "Tensor"
    THEN [raised |-> "NoError", value |-> r]
    ELSE IF r.type = "tuple"
      THEN IF Len(r.items) = 0
             THEN [raised |-> "IndexError", value |-> NoTrainResult]
             ELSE [raised |-> "NoError", value |-> r.items[1]]
      ELSE [raised |-> "UnrecognizedTrainResultError", value |-> NoTrainResult]

-----------------------------------------------------------------------------
(* __init__, lines 75-81 *)

\* The learning_rate arguments tried (in units of the default, 0.001).
LearningRates == {2}

NoResult == [outputs |-> <<>>, inner_outputs |-> <<>>, inner_losses |-> <<>>]

Constructed ==
  /\ variable_cache = <<>>
  /\ custom_getter_variable_cache = <<>>
  /\ lr_cache = <<>>
  /\ learning_rate \in LearningRates
  /\ use_second_order \in BOOLEAN
  /\ var_scope \in {None, Some(ScopePrefix)}
  /\ learn_inner_lr \in BOOLEAN
  /\ inner_loop_vars = {}
  /\ inner_learning_rates = {}

\* No call of inner_loop yet.
NotCalled ==
  /\ pc = "IDLE"
  /\ error = "NoError"
  /\ inputs_list = <<>>
  /\ inference_network_fn = <<>>
  /\ model_train_fn = "loss"
  /\ params = <<>>
  /\ step = 0
  /\ inner_outputs = <<>>
  /\ inner_losses = <<>>
  /\ train_loss = NoTrainResult
  /\ gradients = <<>>
  /\ conditioned_outputs = NoOutputs
  /\ unconditioned_outputs = NoOutputs
  /\ result = NoResult

Init ==
  /\ Constructed
  /\ NotCalled
  /\ train_fn_result = NoTrainResult

-----------------------------------------------------------------------------
(* inner_loop, lines 212-327, one action per phase *)

\* the loop written over inputs_list[:-2]
AdaptationBatchesButLast(inputs) == SubSeq(inputs, 1, Len(inputs) - 2)

\* inputs_list[:-1], line 264
AdaptationBatches(inputs) == SubSeq(inputs, 1, Len(inputs) - 1)

\* the conditioned evaluation placed after the unconditioned one
NextPhaseSwapped(phase) ==
  CASE phase = "CONVERGENCE_CHECK" -> "UNCONDITIONED_EVAL"
    [] phase = "CONDITIONED_EVAL" -> "DONE"
    [] phase = "UNCONDITIONED_EVAL" -> "CONDITIONED_EVAL"

\* The statements of lines 288-327 run in program order.
NextPhase(phase) ==
  CASE phase = "CONVERGENCE_CHECK" -> "CONDITIONED_EVAL"
    [] phase = "CONDITIONED_EVAL" -> "UNCONDITIONED_EVAL"
    [] phase = "UNCONDITIONED_EVAL" -> "DONE"

\* params['is_inner_loop'] = False, line 313
ConditionedParams(p) == Store(p, "is_inner_loop", FALSE)
\* line 322 left out
UnconditionedParamsKept(p) == p

\* params['is_inner_loop'] = True, line 322
UnconditionedParams(p) == Store(p, "is_inner_loop", TRUE)

\* the pair returned the other way round
ReturnValueSwapped(unconditioned, conditioned, outputs, losses) ==
  [outputs |-> <<conditioned, unconditioned>>,
   inner_outputs |-> outputs,
   inner_losses |-> losses]

\* The return value, lines 326-327
ReturnValue(unconditioned, conditioned, outputs, losses) ==
  [outputs |-> <<unconditioned, conditioned>>,
   inner_outputs |-> outputs,
   inner_losses |-> losses]

\* Lines 257-263: the call.  inputs_list[-1] raises on an empty list.
InnerLoop ==
  /\ pc \in {"IDLE", "DONE", "ERROR"}
  /\ Len(variable_cache) < MaxGens
  /\ \E n \in 0..(MaxGens + 1), reads \in TrainingReads, shape \in TrainFnShapes :
       /\ Len(variable_cache) + n <= MaxGens + 1
       /\ inputs_list' = [b \in 1..n |-> b]
       /\ inference_network_fn' = reads
       /\ model_train_fn' = shape
       /\ IF n = 0
            THEN /\ pc' = "ERROR"
                 /\ error' = "IndexError"
                 /\ params' = <<>>
            ELSE /\ pc' = "INIT"
                 /\ error' = "NoError"
                 /\ params' = Store(<<>>, "is_inner_loop", TRUE)
  /\ step' = 0
  /\ inner_outputs' = <<>>
  /\ inner_losses' = <<>>
  /\ train_fn_result' = NoTrainResult
  /\ train_loss' = NoTrainResult
  /\ gradients' = <<>>
  /\ conditioned_outputs' = NoOutputs
  /\ unconditioned_outputs' = NoOutputs
  /\ result' = NoResult
  /\ UNCHANGED <<instance, graph>>

\* Lines 264-286: one iteration of the for loop over inputs_list[:-1].
AdaptStep ==
  /\ pc \in {"INIT", "ADAPT_STEP"}
  /\ step < Len(AdaptationBatches(inputs_list))
  /\ \E batch \in {AdaptationBatches(inputs_list)[step + 1]} :
     \E fwd \in {ForwardPass(inference_network_fn, custom_getter_variable_cache,
                              inner_loop_vars, <<>>)} :
     \E loss \in {ExtractTrainLoss(TrainFnResult(model_train_fn, batch, params))} :
       /\ inner_outputs' = Append(inner_outputs, Outputs(batch, params, fwd.values))
       /\ inner_loop_vars' = fwd.store
       /\ train_fn_result' = TrainFnResult(model_train_fn, batch, params)
       /\ IF loss.raised # "NoError"
            THEN /\ pc' = "ERROR"
                 /\ error' = loss.raised
                 /\ custom_getter_variable_cache' = fwd.cache
                 /\ UNCHANGED <<variable_cache, lr_cache, inner_learning_rates,
                                inner_losses, train_loss, gradients, step>>
            ELSE \E grads \in [1..Len(fwd.cache) -> Gradients] :
                 \E r \in {ComputeAndApplyGradients(fwd.cache, variable_cache, lr_cache,
                                                     inner_learning_rates, grads)} :
                   /\ train_loss' = loss.value
                   /\ inner_losses' = Append(inner_losses, loss.value)
                   /\ custom_getter_variable_cache' = r.cache
                   /\ variable_cache' = r.history
                   /\ lr_cache' = r.lr_cache
                   /\ inner_learning_rates' = r.created
                   /\ IF r.raised
                        THEN /\ pc' = "ERROR"
                             /\ error' = "PreconditionError"
                             /\ UNCHANGED <<gradients, step>>
                        ELSE /\ pc' = "ADAPT_STEP"
                             /\ gradients' = grads
                             /\ step' = step + 1
                             /\ UNCHANGED error
  /\ UNCHANGED <<learning_rate, use_second_order, var_scope, learn_inner_lr,
                 inputs_list, inference_network_fn, model_train_fn, params,
                 conditioned_outputs, unconditioned_outputs, result>>

\* the pass on inputs_list[-2] followed by a gradient step like the others
ConvergenceCheckWithGradientStep ==
  /\ pc \in {"INIT", "ADAPT_STEP"}
  /\ step = Len(AdaptationBatches(inputs_list))
  /\ Len(inputs_list) >= 2
  /\ model_train_fn = "loss"
  /\ \E batch \in {inputs_list[Len(inputs_list) - 1]} :
     \E fwd \in {ForwardPass(inference_network_fn, custom_getter_variable_cache,
                              inner_loop_vars, <<>>)} :
     \E grads \in [1..Len(fwd.cache) -> Gradients] :
     \E r \in {ComputeAndApplyGradients(fwd.cache, variable_cache, lr_cache,
                                         inner_learning_rates, grads)} :
       /\ ~r.raised
       /\ inner_outputs' = Append(inner_outputs, Outputs(batch, params, fwd.values))
       /\ inner_losses' = Append(inner_losses, TrainFnResult(model_train_fn, batch, params))
       /\ train_fn_result' = TrainFnResult(model_train_fn, batch, params)
       /\ inner_loop_vars' = fwd.store
       /\ custom_getter_variable_cache' = r.cache
       /\ variable_cache' = r.history
       /\ lr_cache' = r.lr_cache
       /\ inner_learning_rates' = r.created
  /\ pc' = "CONVERGENCE_CHECK"
  /\ UNCHANGED <<learning_rate, use_second_order, var_scope, learn_inner_lr, error,
                 inputs_list, inference_network_fn, model_train_fn, params, step,
                 train_loss, gradients, conditioned_outputs, unconditioned_outputs,
                 result>>

\* Lines 288-306: the pass on inputs_list[-2] after the loop.
ConvergenceCheck ==
  /\ pc \in {"INIT", "ADAPT_STEP"}
  /\ step = Len(AdaptationBatches(inputs_list))
  /\ IF Len(inputs_list) < 2
       THEN /\ pc' = "ERROR"
            /\ error' = "IndexError"
            /\ UNCHANGED <<custom_getter_variable_cache, inner_loop_vars, inner_outputs,
                           inner_losses, train_fn_result>>
       ELSE \E batch \in {inputs_list[Len(inputs_list) - 1]} :
            \E fwd \in {ForwardPass(inference_network_fn, custom_getter_variable_cache,
                                     inner_loop_vars, <<>>)} :
            \E loss \in {ExtractTrainLoss(TrainFnResult(model_train_fn, batch, params))} :
               /\ inner_outputs' = Append(inner_outputs, Outputs(batch, params, fwd.values))
               /\ custom_getter_variable_cache' = fwd.cache
               /\ inner_loop_vars' = fwd.store
               /\ train_fn_result' = TrainFnResult(model_train_fn, batch, params)
               /\ IF loss.raised # "NoError"
                    THEN /\ pc' = "ERROR"
                         /\ error' = loss.raised
                         /\ UNCHANGED inner_losses
                    ELSE /\ pc' = "CONVERGENCE_CHECK"
                         /\ inner_losses' = Append(inner_losses, loss.value)
                         /\ UNCHANGED error
  /\ UNCHANGED <<variable_cache, lr_cache, learning_rate, use_second_order, var_scope,
                 learn_inner_lr, inner_learning_rates, inputs_list,
                 inference_network_fn, model_train_fn, params, step, train_loss,
                 gradients, conditioned_outputs, unconditioned_outputs, result>>

\* Lines 308-315: the pass on the validation batch under the custom getter.
ConditionedEval ==
  /\ pc = "CONVERGENCE_CHECK"
  /\ params' = ConditionedParams(params)
  /\ \E reads \in EvalReads :
     \E fwd \in {ForwardPass(reads, custom_getter_variable_cache, inner_loop_vars, <<>>)} :
       /\ custom_getter_variable_cache' = fwd.cache
       /\ inner_loop_vars' = fwd.store
       /\ conditioned_outputs' =
            Outputs(inputs_list[Len(inputs_list)], ConditionedParams(params), fwd.values)
  /\ pc' = NextPhase(pc)
  /\ UNCHANGED <<variable_cache, lr_cache, learning_rate, use_second_order, var_scope,
                 learn_inner_lr, inner_learning_rates, error, inputs_list,
                 inference_network_fn, model_train_fn, step, inner_outputs, inner_losses,
                 train_fn_result, train_loss, gradients, unconditioned_outputs, result>>

\* Lines 317-324: the pass on the validation batch under reuse=True.
UnconditionedEval ==
  /\ pc = "CONDITIONED_EVAL"
  /\ params' = UnconditionedParams(params)
  /\ \E reads \in EvalReads :
     \E pass \in {ReuseOnlyPass(reads, inner_loop_vars)} :
       IF pass.raised
         THEN /\ pc' = "ERROR"
              /\ error' = "VariableDoesNotExist"
              /\ UNCHANGED unconditioned_outputs
         ELSE /\ pc' = NextPhase(pc)
              /\ unconditioned_outputs' =
                   Outputs(inputs_list[Len(inputs_list)], UnconditionedParams(params),
                           pass.values)
              /\ UNCHANGED error
  /\ UNCHANGED <<instance, graph, inputs_list, inference_network_fn,
                 model_train_fn, step, inner_outputs, inner_losses, train_fn_result,
                 train_loss, gradients, conditioned_outputs, result>>

\* Lines 326-327.
Return ==
  /\ pc = "UNCONDITIONED_EVAL"
  /\ pc' = NextPhase(pc)
  /\ result' = ReturnValue(unconditioned_outputs, conditioned_outputs,
                            inner_outputs, inner_losses)
  /\ UNCHANGED <<instance, graph, error, inputs_list, inference_network_fn,
                 model_train_fn, params, step, inner_outputs, inner_losses,
                 train_fn_result, train_loss, gradients, conditioned_outputs,
                 unconditioned_outputs>>

\* A step of an invocation in progress.
Run ==
  \/ AdaptStep
  \/ ConvergenceCheck
  \/ ConditionedEval
  \/ UnconditionedEval
  \/ Return

Next == InnerLoop \/ Run

Spec == Init /\ [][Next]_vars

\* Once called, inner_loop runs to its end: execution is sequential and no
\* phase waits for anything.
FairSpec == Spec /\ WF_vars(Run)

-----------------------------------------------------------------------------
(* _extract_train_loss on its own, over every shape of train_fn_result *)

TupleItems == {LossTensor(1, TRUE), LossTensor(2, TRUE), TrainOutputs(1, TRUE), Text}
List(items) == [type |-> "list", features |-> 0, is_inner_loop |-> FALSE, items |-> items]
TrainFnResults ==
  TupleItems
    \cup {Tuple(items) : items \in SeqsUpTo(TupleItems, MaxTupleLen)}
    \cup {List(items) : items \in SeqsUpTo(TupleItems, MaxTupleLen)}

InitExtract ==
  /\ Constructed
  /\ NotCalled
  /\ train_fn_result \in TrainFnResults

ExtractTrainLossCall ==
  /\ pc = "IDLE"
  /\ train_fn_result # NoTrainResult
  /\ LET r == ExtractTrainLoss(train_fn_result)
     IN /\ train_loss' = r.value
        /\ error' = r.raised
        /\ pc' = IF r.raised = "NoError" THEN "DONE" ELSE "ERROR"
  /\ UNCHANGED <<instance, graph, inputs_list, inference_network_fn, model_train_fn,
                 params, step, inner_outputs, inner_losses, train_fn_result, gradients,
                 conditioned_outputs, unconditioned_outputs, result>>

NextExtract == ExtractTrainLossCall

SpecExtract == InitExtract /\ [][NextExtract]_vars

-----------------------------------------------------------------------------
(* Properties of the gradient step *)

\* The generation the last gradient step started from.
LastGeneration == variable_cache[Len(variable_cache)]

\* A name passes the scope filter.
Adaptable(name) == var_scope.isNone \/ StartsWith(name, The(var_scope))

\* C1: right after a gradient step, every parameter of the old cache that
\* passes the scope filter and has a gradient holds old_value minus its
\* learning rate times its gradient in the new cache, whatever else is in the
\* cache and wherever it stands in it.
C1_UpdateRule ==
  pc = "ADAPT_STEP" =>
    \A i \in 1..Len(LastGeneration) :
      LET name == LastGeneration[i].k
      IN (Adaptable(name) /\ ~gradients[i].isNone) =>
           /\ Contains(custom_getter_variable_cache, name)
           /\ learn_inner_lr => Contains(lr_cache, name)
           /\ Lookup(custom_getter_variable_cache, name).val =
                LastGeneration[i].v.val
                  - (IF learn_inner_lr THEN Lookup(lr_cache, name).val ELSE learning_rate)
                      * The(gradients[i])

\* Two parameters updated in one step, the one requested second by the network
\* standing first in the cache.
C1_Witness ==
  /\ pc = "ADAPT_STEP"
  /\ Keys(LastGeneration) = <<NameUnder, NameSlash>>
  /\ var_scope.isNone
  /\ \A i \in 1..2 : ~gradients[i].isNone
  /\ Lookup(custom_getter_variable_cache, NameSlash).val < InitialValue(NameSlash)

\* C2: right after a gradient step the new cache has exactly the names of the
\* generation it started from, and every name without a gradient or outside the
\* scope filter maps to the very value it had.
C2_CarryForward ==
  pc = "ADAPT_STEP" =>
    /\ KeySet(custom_getter_variable_cache) = KeySet(LastGeneration)
    /\ Len(custom_getter_variable_cache) = Len(LastGeneration)
    /\ \A i \in 1..Len(LastGeneration) :
         LET name == LastGeneration[i].k
         IN (gradients[i].isNone \/ ~Adaptable(name)) =>
              /\ Contains(custom_getter_variable_cache, name)
              /\ Lookup(custom_getter_variable_cache, name) = LastGeneration[i].v

\* A step that updates one parameter and carries the other one, which had been
\* updated by the step before, over.
C2_Witness ==
  /\ pc = "ADAPT_STEP"
  /\ Len(LastGeneration) = 2
  /\ \E i, j \in 1..2 :
       /\ gradients[i].isNone
       /\ LastGeneration[i].v.op = "Sub"
       /\ ~gradients[j].isNone
       /\ Adaptable(LastGeneration[j].k)

\* C3: with a scope filter, a parameter outside the prefix holds its
\* generation-0 value in every generation and in the current cache, gradient or
\* not, and a parameter inside the prefix with a gradient gets a new value in
\* every step.
C3_ScopeFilter ==
  ~var_scope.isNone =>
    /\ \A g \in 1..Len(variable_cache) : \A i \in 1..Len(variable_cache[g]) :
         ~StartsWith(variable_cache[g][i].k, The(var_scope)) =>
            variable_cache[g][i].v = VariableTensor(variable_cache[g][i].k)
    /\ \A i \in 1..Len(custom_getter_variable_cache) :
         ~StartsWith(custom_getter_variable_cache[i].k, The(var_scope)) =>
            custom_getter_variable_cache[i].v =
              VariableTensor(custom_getter_variable_cache[i].k)
    /\ pc = "ADAPT_STEP" =>
         \A i \in 1..Len(LastGeneration) :
           (StartsWith(LastGeneration[i].k, The(var_scope)) /\ ~gradients[i].isNone) =>
              /\ Contains(custom_getter_variable_cache, LastGeneration[i].k)
              /\ Lookup(custom_getter_variable_cache, LastGeneration[i].k).val
                   # LastGeneration[i].v.val

\* After the second step of a call under the filter: the parameter outside the
\* prefix had a gradient, the one inside has been updated twice.
C3_Witness ==
  /\ ~var_scope.isNone
  /\ pc = "ADAPT_STEP"
  /\ step = 2
  /\ Keys(LastGeneration) = <<NameUnder, NameSlash>>
  /\ ~gradients[1].isNone
  /\ ~gradients[2].isNone
  /\ LastGeneration[2].v.op = "Sub"
  /\ Lookup(custom_getter_variable_cache, NameUnder) = VariableTensor(NameUnder)

\* C4: a gradient step asked for while the cache is empty raises the
\* precondition error and leaves the cache, the history of generations and the
\* learning rates as they were; the error is raised in no other case.
C4_EmptyCacheFails ==
  [][ /\ ( /\ pc \in {"INIT", "ADAPT_STEP"}
            /\ step < Len(inputs_list) - 1
            /\ custom_getter_variable_cache = <<>>
            /\ inference_network_fn = <<>>
            /\ model_train_fn = "loss" )
         => ( /\ pc' = "ERROR"
              /\ error' = "PreconditionError"
              /\ UNCHANGED <<custom_getter_variable_cache, variable_cache, lr_cache,
                             inner_learning_rates>> )
      /\ (error' = "PreconditionError" /\ pc # "ERROR")
         => ( /\ custom_getter_variable_cache' = <<>>
              /\ UNCHANGED <<variable_cache, lr_cache, inner_learning_rates>> )
    ]_vars

\* The step has been asked for with nothing in the cache.
C4_Witness ==
  /\ pc = "ERROR"
  /\ error = "PreconditionError"
  /\ custom_getter_variable_cache = <<>>
  /\ Len(inner_losses) = 1

\* C5: _extract_train_loss returns a bare loss tensor as it is, the first
\* element of a two-element tuple, and raises the unrecognized-train-result
\* error for everything else.
C5_ExtractTrainLoss ==
  pc # "IDLE" =>
    IF train_fn_result.type = "Tensor"
      THEN error = "NoError" /\ train_loss = train_fn_result
      ELSE IF train_fn_result.type = "tuple" /\ Len(train_fn_result.items) = 2
        THEN error = "NoError" /\ train_loss = train_fn_result.items[1]
        ELSE error = "UnrecognizedTrainResultError"

\* _extract_train_loss has returned the first element of a tuple of three.
C5_Witness ==
  /\ pc = "DONE"
  /\ train_fn_result.type = "tuple"
  /\ Len(train_fn_result.items) = 3
  /\ train_loss = train_fn_result.items[1]

-----------------------------------------------------------------------------
(* Properties of inner_loop *)

\* A step of the phase of one invocation, or the start of the next invocation.
PhaseStep(p, q) ==
  \/ q = "ERROR"
  \/ p \in {"IDLE", "DONE", "ERROR"} /\ q = "INIT"
  \/ p \in {"INIT", "ADAPT_STEP"} /\ q \in {"ADAPT_STEP", "CONVERGENCE_CHECK"}
  \/ p = "CONVERGENCE_CHECK" /\ q = "CONDITIONED_EVAL"
  \/ p = "CONDITIONED_EVAL" /\ q = "UNCONDITIONED_EVAL"
  \/ p = "UNCONDITIONED_EVAL" /\ q = "DONE"

\* C6: an invocation on two batches or more goes INIT, ADAPT_STEP any number
\* of times, CONVERGENCE_CHECK, CONDITIONED_EVAL, UNCONDITIONED_EVAL, DONE, every
\* step of it moving to the next phase of this order (or raising), and it ends:
\* DONE is reached unless an error is raised.
C6_PhaseOrder ==
  /\ [][PhaseStep(pc, pc')]_vars
  /\ (pc = "INIT" /\ Len(inputs_list) >= 2) ~> (pc \in {"DONE", "ERROR"})

\* An invocation on three batches has run through all phases.
C6_Witness ==
  /\ pc = "DONE"
  /\ Len(inputs_list) = 3
  /\ step = 2
  /\ error = "NoError"

\* C7 as claimed: ADAPT_STEP has run exactly len(batches) - 2 times when the
\* invocation is done.
C7_AllButLastAdaptationBatch ==
  pc = "DONE" => step = Len(inputs_list) - 2

\* C7 as amended: once the loop is over ADAPT_STEP has run exactly
\* len(batches) - 1 times, once for every batch but the validation batch, the
\* last adaptation batch included, in list order, each with its gradient step.
C7_AllAdaptationBatches ==
  pc \in {"CONVERGENCE_CHECK", "CONDITIONED_EVAL", "UNCONDITIONED_EVAL", "DONE"} =>
    /\ step = Len(inputs_list) - 1
    /\ Len(variable_cache) >= step
    /\ Len(inner_outputs) = step + 1
    /\ \A i \in 1..step : inner_outputs[i].features = inputs_list[i]

\* The loop over two adaptation batches is over.
C7_Witness ==
  /\ pc = "CONVERGENCE_CHECK"
  /\ Len(inputs_list) = 3
  /\ step = 2
  /\ inner_outputs[2].features = 2

\* C8: a finished invocation has taken len(inputs_list) - 1 gradient steps, one
\* per batch but the last in list order, and returns inner_losses and
\* inner_outputs of that length plus one and the pair <<unconditioned,
\* conditioned>>, both of the last batch; three batches give two steps and
\* three losses.
C8_Returned ==
  pc = "DONE" =>
    LET n == Len(inputs_list)
    IN /\ step = n - 1
       /\ Len(variable_cache) >= step
       /\ Len(result.inner_losses) = step + 1
       /\ Len(result.inner_outputs) = step + 1
       /\ \A i \in 1..step :
            /\ result.inner_outputs[i].features = inputs_list[i]
            /\ result.inner_losses[i].features = inputs_list[i]
       /\ Len(result.outputs) = 2
       /\ result.outputs[1] = unconditioned_outputs
       /\ result.outputs[2] = conditioned_outputs
       /\ result.outputs[1].is_inner_loop /\ ~result.outputs[2].is_inner_loop
       /\ result.outputs[1].features = inputs_list[n]
       /\ result.outputs[2].features = inputs_list[n]
       /\ (n = 3) => (step = 2 /\ Len(result.inner_losses) = 3)

\* Three batches: steps on batch 1 and batch 2, three losses.
C8_Witness ==
  /\ pc = "DONE"
  /\ Len(inputs_list) = 3
  /\ Len(result.inner_losses) = 3
  /\ result.inner_losses[1].features = 1
  /\ result.inner_losses[2].features = 2

\* C9 as claimed: every value the unconditioned pass read is the value of the
\* latest cache, the one the conditioned pass read for that name.
C9_SameCache ==
  pc \in {"UNCONDITIONED_EVAL", "DONE"} =>
    \A i \in 1..Len(unconditioned_outputs.values) :
      LET read == unconditioned_outputs.values[i]
      IN /\ Contains(custom_getter_variable_cache, read.k)
         /\ read.v = Lookup(custom_getter_variable_cache, read.k)
         /\ \A j \in 1..Len(conditioned_outputs.values) :
              conditioned_outputs.values[j].k = read.k =>
                conditioned_outputs.values[j].v = read.v

\* C9 as amended: the unconditioned pass reads the variables of the store, not
\* the cache: every value it read is the variable as created; every value the
\* conditioned pass read is the value of the latest cache; the two agree on a
\* name exactly when no gradient step has updated it.
C9_UnconditionedReadsStore ==
  pc \in {"UNCONDITIONED_EVAL", "DONE"} =>
    /\ \A i \in 1..Len(unconditioned_outputs.values) :
         /\ unconditioned_outputs.values[i].k \in inner_loop_vars
         /\ unconditioned_outputs.values[i].v =
              VariableTensor(unconditioned_outputs.values[i].k)
    /\ \A j \in 1..Len(conditioned_outputs.values) :
         /\ Contains(custom_getter_variable_cache, conditioned_outputs.values[j].k)
         /\ conditioned_outputs.values[j].v =
              Lookup(custom_getter_variable_cache, conditioned_outputs.values[j].k)
    /\ \A i \in 1..Len(unconditioned_outputs.values) :
         \A j \in 1..Len(conditioned_outputs.values) :
           unconditioned_outputs.values[i].k = conditioned_outputs.values[j].k =>
             ( unconditioned_outputs.values[i].v = conditioned_outputs.values[j].v
               <=> conditioned_outputs.values[j].v.op = "Variable" )

\* Both passes read a parameter that a gradient step has updated.
C9_Witness ==
  /\ pc = "DONE"
  /\ Len(unconditioned_outputs.values) = 1
  /\ Len(conditioned_outputs.values) = 1
  /\ unconditioned_outputs.values[1].k = conditioned_outputs.values[1].k
  /\ conditioned_outputs.values[1].v.op = "Sub"
  /\ unconditioned_outputs.values[1].v.op = "Variable"

\* C10: params['is_inner_loop'] is True in every forward pass and loss of the
\* adaptation steps and of the convergence check, False in the conditioned
\* pass and there only, True in the unconditioned pass and in the params the
\* caller gets back.
C10_InnerLoopFlag ==
  /\ pc \in {"INIT", "ADAPT_STEP", "CONVERGENCE_CHECK"} => Lookup(params, "is_inner_loop")
  /\ \A i \in 1..Len(inner_outputs) : inner_outputs[i].is_inner_loop
  /\ \A i \in 1..Len(inner_losses) : inner_losses[i].is_inner_loop
  /\ pc = "CONDITIONED_EVAL" =>
       ~Lookup(params, "is_inner_loop") /\ ~conditioned_outputs.is_inner_loop
  /\ pc \in {"UNCONDITIONED_EVAL", "DONE"} =>
       /\ Lookup(params, "is_inner_loop")
       /\ unconditioned_outputs.is_inner_loop
       /\ ~conditioned_outputs.is_inner_loop

\* The invocation has returned after both evaluation passes.
C10_Witness ==
  /\ pc = "DONE"
  /\ Len(inner_losses) = 3
  /\ Lookup(params, "is_inner_loop")
  /\ ~result.outputs[2].is_inner_loop

-----------------------------------------------------------------------------
(* Properties of the learning rates, the getter and the caches *)

\* C11: no step of the instance replaces or removes an entry of the
\* learning-rate registry or gives a name a second entry, and looking a
\* registered name up again returns the registered scalar and creates nothing.
C11_RegistryIdempotent ==
  [][ /\ Len(lr_cache') >= Len(lr_cache)
      /\ \A i \in 1..Len(lr_cache) : lr_cache'[i] = lr_cache[i]
      /\ Cardinality(KeySet(lr_cache')) = Len(lr_cache')
      /\ \A i \in 1..Len(lr_cache') :
           GetLearningRate(lr_cache', inner_learning_rates', lr_cache'[i].k) =
             [value |-> lr_cache'[i].v,
              lr_cache |-> lr_cache',
              created |-> inner_learning_rates']
    ]_vars

\* A second gradient step has used the entry the first one created and has
\* added one for another name.
C11_Witness ==
  /\ pc = "ADAPT_STEP"
  /\ Len(variable_cache) = 2
  /\ Len(lr_cache) = 2
  /\ Contains(variable_cache[1], lr_cache[1].k)
  /\ ~Contains(variable_cache[1], lr_cache[2].k)
  /\ Lookup(custom_getter_variable_cache, lr_cache[1].k).val
       = InitialValue(lr_cache[1].k) - 2 * lr_cache[1].v.val * The(gradients[1])

\* C12: every value a gradient step has computed, in the current cache and in
\* every generation of the history, was computed from a scaled gradient under
\* tf.stop_gradient when use_second_order is False and from one that is not
\* when it is True; right after a step this holds of every parameter with a
\* gradient that passes the scope filter.
C12_StopGradient ==
  /\ \A i \in 1..Len(custom_getter_variable_cache) :
       custom_getter_variable_cache[i].v.op = "Sub" =>
         (custom_getter_variable_cache[i].v.stopped <=> ~use_second_order)
  /\ \A g \in 1..Len(variable_cache) : \A i \in 1..Len(variable_cache[g]) :
       variable_cache[g][i].v.op = "Sub" =>
         (variable_cache[g][i].v.stopped <=> ~use_second_order)
  /\ pc = "ADAPT_STEP" =>
       \A i \in 1..Len(LastGeneration) :
         (Adaptable(LastGeneration[i].k) /\ ~gradients[i].isNone) =>
           /\ Lookup(custom_getter_variable_cache, LastGeneration[i].k).op = "Sub"
           /\ Lookup(custom_getter_variable_cache, LastGeneration[i].k).stopped
                <=> ~use_second_order

\* First-order adaptation: a second step has updated an updated parameter.
C12_Witness ==
  /\ ~use_second_order
  /\ pc = "ADAPT_STEP"
  /\ Len(variable_cache) = 2
  /\ \E i \in 1..Len(LastGeneration) :
       /\ LastGeneration[i].v.op = "Sub"
       /\ LastGeneration[i].v.stopped
       /\ ~gradients[i].isNone
       /\ Adaptable(LastGeneration[i].k)
       /\ Lookup(custom_getter_variable_cache, LastGeneration[i].k).stopped

\* Every value a forward pass was given is the value of cache for that name.
ReadFrom(values, cache) ==
  \A j \in 1..Len(values) :
    /\ Contains(cache, values[j].k)
    /\ values[j].v = Lookup(cache, values[j].k)

\* C13: in every state the getter, asked for a name of the current cache,
\* returns the cached value and touches neither cache nor store, and asked for
\* another name stores the variable of the original getter under that name
\* and returns it; no cache holds a name twice; every forward pass under the
\* getter was given, for each name and each time it asked, the value of the
\* cache it ran on, which after a gradient step is the updated value.
C13_GetterSemantics ==
  /\ \A name \in Names :
       LET r == CustomGetterFn(custom_getter_variable_cache, inner_loop_vars, name)
       IN IF Contains(custom_getter_variable_cache, name)
            THEN /\ r.cache = custom_getter_variable_cache
                 /\ r.store = inner_loop_vars
                 /\ r.value = Lookup(custom_getter_variable_cache, name)
            ELSE /\ r.cache = Append(custom_getter_variable_cache,
                                     [k |-> name, v |-> VariableTensor(name)])
                 /\ r.store = inner_loop_vars \cup {name}
                 /\ r.value = VariableTensor(name)
  /\ Cardinality(KeySet(custom_getter_variable_cache)) = Len(custom_getter_variable_cache)
  /\ \A g \in 1..Len(variable_cache) :
       Cardinality(KeySet(variable_cache[g])) = Len(variable_cache[g])
  /\ pc = "ADAPT_STEP" =>
       /\ ReadFrom(inner_outputs[Len(inner_outputs)].values, LastGeneration)
       /\ Len(inner_outputs[Len(inner_outputs)].values) = Len(inference_network_fn)
  /\ pc = "CONVERGENCE_CHECK" =>
       ReadFrom(inner_outputs[Len(inner_outputs)].values, custom_getter_variable_cache)
  /\ pc = "CONDITIONED_EVAL" =>
       ReadFrom(conditioned_outputs.values, custom_getter_variable_cache)

\* The pass of the second step asked for a name twice and was given the value
\* the first step had computed both times.
C13_Witness ==
  /\ pc = "ADAPT_STEP"
  /\ step = 2
  /\ inference_network_fn = <<NameSlash, NameUnder, NameSlash>>
  /\ inner_outputs[2].values[1].v.op = "Sub"
  /\ inner_outputs[2].values[3] = inner_outputs[2].values[1]
  /\ inner_outputs[2].values[1].v # VariableTensor(NameSlash)

\* C14: when an invocation of inner_loop starts, the first on the instance or
\* a later one, the current cache is empty, and every value the first forward
\* pass of the invocation is given is the variable as the original getter
\* creates it.
C14_CacheEmptyAtStart ==
  /\ pc = "INIT" => custom_getter_variable_cache = <<>>
  /\ Len(inner_outputs) >= 1 =>
       \A j \in 1..Len(inner_outputs[1].values) :
         inner_outputs[1].values[j].v = VariableTensor(inner_outputs[1].values[j].k)

\* The first forward pass of a second invocation was given a value that a
\* gradient step of the first invocation had computed.
C14_Witness ==
  /\ pc = "ADAPT_STEP"
  /\ step = 1
  /\ Len(variable_cache) = 2
  /\ Len(inner_outputs) = 1
  /\ Len(inner_outputs[1].values) >= 1
  /\ inner_outputs[1].values[1].v.op = "Sub"
  /\ inner_outputs[1].values[1].v # VariableTensor(inner_outputs[1].values[1].k)

\* C15: every step of an invocation after its last ADAPT_STEP (the convergence
\* check, the conditioned and the unconditioned pass, the return) leaves every
\* entry of the current cache as it is, appends nothing to the history and
\* creates no learning rate.
C15_EvalPassesTakeNoStep ==
  [][ ( \/ pc \in {"INIT", "ADAPT_STEP"} /\ step = Len(inputs_list) - 1
        \/ pc \in {"CONVERGENCE_CHECK", "CONDITIONED_EVAL", "UNCONDITIONED_EVAL"} )
      => ( /\ variable_cache' = variable_cache
           /\ lr_cache' = lr_cache
           /\ inner_learning_rates' = inner_learning_rates
           /\ Len(custom_getter_variable_cache') >= Len(custom_getter_variable_cache)
           /\ \A i \in 1..Len(custom_getter_variable_cache) :
                custom_getter_variable_cache'[i] = custom_getter_variable_cache[i] )
    ]_vars

\* An invocation has returned; its passes after the last step left the
\* updated parameter alone, and the conditioned pass added a name to the cache.
C15_Witness ==
  /\ pc = "DONE"
  /\ step = 1
  /\ Len(variable_cache) = 1
  /\ Len(inner_losses) = 2
  /\ Len(custom_getter_variable_cache) = Len(LastGeneration) + 1
  /\ custom_getter_variable_cache[1].v.op = "Sub"
  /\ custom_getter_variable_cache[2].v.op = "Variable"

\* C16: the unconditioned pass leaves the current cache and the variables of
\* the store as they are; when it completes, every name it read was in the
\* store before; it fails with the error of a variable that does not exist,
\* and only when the store lacks a name.
C16_UnconditionedCreatesNothing ==
  [][ pc = "CONDITIONED_EVAL" =>
        /\ custom_getter_variable_cache' = custom_getter_variable_cache
        /\ inner_loop_vars' = inner_loop_vars
        /\ pc' = "UNCONDITIONED_EVAL" =>
             \A i \in 1..Len(unconditioned_outputs'.values) :
               unconditioned_outputs'.values[i].k \in inner_loop_vars
        /\ pc' = "ERROR" =>
             /\ error' = "VariableDoesNotExist"
             /\ inner_loop_vars # Names
             /\ unconditioned_outputs' = unconditioned_outputs
        /\ pc' \in {"UNCONDITIONED_EVAL", "ERROR"}
    ]_vars

\* The unconditioned pass asked for a name no pass had asked for before.
C16_Witness ==
  /\ pc = "ERROR"
  /\ error = "VariableDoesNotExist"
  /\ inner_loop_vars = {NameSlash}
  /\ KeySet(custom_getter_variable_cache) = {NameSlash}
  /\ unconditioned_outputs = NoOutputs
  /\ conditioned_outputs # NoOutputs

\* C17: a step that completes a gradient step appends exactly one generation
\* to the history, the cache as the forward pass of that step left it, and
\* installs a cache built anew over the same names; every other step leaves
\* the history as it is; no step changes a generation that is in the history.
C17_HistoryAppendOnly ==
  [][ /\ Len(variable_cache') >= Len(variable_cache)
      /\ \A g \in 1..Len(variable_cache) : variable_cache'[g] = variable_cache[g]
      /\ IF pc' = "ADAPT_STEP"
           THEN /\ Len(variable_cache') = Len(variable_cache) + 1
                /\ variable_cache'[Len(variable_cache')] =
                     ForwardPass(inference_network_fn, custom_getter_variable_cache,
                                 inner_loop_vars, <<>>).cache
                /\ Keys(custom_getter_variable_cache') =
                     Keys(variable_cache'[Len(variable_cache')])
                /\ step' = step + 1
           ELSE /\ variable_cache' = variable_cache
                /\ pc \notin {"IDLE", "DONE", "ERROR"} => step' = step
    ]_vars

\* Two gradient steps on the instance: the history holds the cache before the
\* first and the cache before the second, and the current cache is a third.
C17_Witness ==
  /\ pc = "ADAPT_STEP"
  /\ Len(variable_cache) = 2
  /\ Len(variable_cache[1]) = 1
  /\ variable_cache[1][1].v.op = "Variable"
  /\ variable_cache[2][1].v.op = "Sub"
  /\ custom_getter_variable_cache[1].v.val < variable_cache[2][1].v.val
  /\ variable_cache[2][1].v.val < variable_cache[1][1].v.val

\* Some gradient step so far has updated the parameter: its value in the
\* current cache is the result of an update (no step drops a name or puts the
\* variable back).
Adapted(name) ==
  /\ Contains(custom_getter_variable_cache, name)
  /\ Lookup(custom_getter_variable_cache, name).op = "Sub"

\* C18 as claimed: the registry holds an entry for a name if and only if some
\* gradient step so far has adapted that name.
C18_RegistryIffAdapted ==
  \A name \in Names : Contains(lr_cache, name) <=> Adapted(name)

\* C18 as amended: with learn_inner_lr the registry holds an entry for a name
\* if and only if some gradient step so far has adapted it, the entry is the
\* scalar variable named after the parameter, holds the base learning rate and
\* is the rate of that parameter's update; without learn_inner_lr the registry
\* stays empty, no learning-rate variable is created and every update uses the
\* base learning rate itself.
C18_RegistryIffAdaptedWhenLearned ==
  /\ learn_inner_lr =>
       /\ \A name \in Names : Contains(lr_cache, name) <=> Adapted(name)
       /\ \A i \in 1..Len(lr_cache) :
            /\ lr_cache[i].v.var = LrVariableName(lr_cache[i].k)
            /\ lr_cache[i].v.val = learning_rate
       /\ inner_learning_rates = {LrVariableName(lr_cache[i].k) : i \in 1..Len(lr_cache)}
  /\ ~learn_inner_lr =>
       /\ lr_cache = <<>>
       /\ inner_learning_rates = {}
  /\ pc = "ADAPT_STEP" =>
       \A i \in 1..Len(LastGeneration) :
         (Adaptable(LastGeneration[i].k) /\ ~gradients[i].isNone) =>
           Lookup(custom_getter_variable_cache, LastGeneration[i].k).val =
             LastGeneration[i].v.val
               - (IF learn_inner_lr
                    THEN Lookup(lr_cache, LastGeneration[i].k).val
                    ELSE learning_rate) * The(gradients[i])

\* With learn_inner_lr, a step has adapted one parameter and carried the other
\* over: the first has an entry, the second has none.
C18_Witness ==
  /\ learn_inner_lr
  /\ pc = "ADAPT_STEP"
  /\ Len(custom_getter_variable_cache) = 2
  /\ Len(lr_cache) = 1
  /\ \E name \in Names :
       /\ Adapted(name) /\ Contains(lr_cache, name)
       /\ \E other \in Names \ {name} :
            /\ Contains(custom_getter_variable_cache, other)
            /\ ~Adapted(other) /\ ~Contains(lr_cache, other)

\* C19: the scalars the registry holds for two distinct parameter names are
\* two distinct variables of the 'inner_learning_rates' scope.
C19_DistinctScalars ==
  /\ \A i, j \in 1..Len(lr_cache) :
       lr_cache[i].k # lr_cache[j].k => lr_cache[i].v.var # lr_cache[j].v.var
  /\ Cardinality(inner_learning_rates) = Len(lr_cache)

\* 'a/b' and 'a_b' have both been adapted with learned rates: the registry
\* holds one and the same variable for the two names.
C19_Witness ==
  /\ learn_inner_lr
  /\ KeySet(lr_cache) = {NameSlash, NameUnder}
  /\ Lookup(lr_cache, NameSlash) = Lookup(lr_cache, NameUnder)
  /\ Cardinality(inner_learning_rates) = 1
  /\ Adapted(NameSlash)
  /\ Adapted(NameUnder)

=============================================================================
